---- MODULE Spec2Model ----
(***************************************************************************)
(* FileFinder: a pool of worker threads walks a directory tree.  A shared  *)
(* queue (DirQueue) holds the directories still to expand, the atomic      *)
(* counter pending_dirs counts the directories not yet finished, and a     *)
(* worker leaves its loop when pop_or_wait returns false and pending_dirs  *)
(* is 0.  Every step below is one atomic effect of src/FileFinder.cpp on   *)
(* the shared state: a critical section of DirQueue::mtx, one atomic       *)
(* read-modify-write, or one stream insertion.                             *)
(***************************************************************************)
EXTENDS Integers, Sequences, FiniteSets, TLC

\* Largest worker count (num_threads) explored.
MaxWorkers == 2

\* std::string::npos, the "no star seen yet" value of matchWildcard.
npos == -1

\* Longest name and longest pattern handed to matchWildcard on its own.
MaxLen == 3

Workers == 1 .. MaxWorkers

(***************************************************************************)
(* matchWildcard (lines 23-52).  Strings are sequences of one-character    *)
(* strings; the cursors n, p, star, match are the 0-based cursors of the   *)
(* source.                                                                 *)
(***************************************************************************)
UpperChars == <<"A","B","C","D","E","F","G","H","I","J","K","L","M",
                "N","O","P","Q","R","S","T","U","V","W","X","Y","Z">>
LowerChars == <<"a","b","c","d","e","f","g","h","i","j","k","l","m",
                "n","o","p","q","r","s","t","u","v","w","x","y","z">>

\* A comparison that forgets to fold the case.
tolowerKeepsCase(c) == c

\* std::tolower in the "C" classification of letters.
tolower(c) ==
    IF \E i \in 1 .. Len(UpperChars) : UpperChars[i] = c
    THEN LowerChars[CHOOSE i \in 1 .. Len(UpperChars) : UpperChars[i] = c]
    ELSE c

\* The loop of lines 48-49: skip the trailing stars.
RECURSIVE SkipStars(_, _)
SkipStars(pattern, p) ==
    IF p < Len(pattern) /\ pattern[p + 1] = "*"
    THEN SkipStars(pattern, p + 1)
    ELSE p

\* The loop of lines 27-46 followed by lines 48-51.
RECURSIVE MatchLoop(_, _, _, _, _, _)
MatchLoop(name, pattern, n, p, star, match) ==
    IF n < Len(name)
    THEN IF p < Len(pattern)
            /\ (pattern[p + 1] = "?"
                \/ tolower(pattern[p + 1]) = tolower(name[n + 1]))
         THEN MatchLoop(name, pattern, n + 1, p + 1, star, match)
         ELSE IF p < Len(pattern) /\ pattern[p + 1] = "*"
         THEN MatchLoop(name, pattern, n, p + 1, p, n)
         ELSE IF star # npos
         THEN MatchLoop(name, pattern, match + 1, star + 1, star, match + 1)
         ELSE FALSE
    ELSE SkipStars(pattern, p) = Len(pattern)

matchWildcard(name, pattern) == MatchLoop(name, pattern, 0, 0, npos, 0)

(***************************************************************************)
(* The file system the walk reads.  A tree is a sequence of entries; entry *)
(* 1 is the start path, parent is the index of the containing directory.   *)
(*   kind: "dir"      a directory                                          *)
(*         "symdir"   a symbolic link to a directory (its children are the *)
(*                    entries of the directory it points to)               *)
(*         "file"     a regular file                                       *)
(*         "symfile"  a symbolic link to a regular file                    *)
(*         "dangling" a symbolic link whose target does not exist          *)
(*         "other"    a socket, fifo or device                             *)
(*         "bad"      an entry whose status query throws (a symbolic link  *)
(*                    to itself: too many levels of symbolic links)        *)
(*   fail: for a directory, what opening it does: "none" (it opens),       *)
(*         "denied" (permission denied, skipped by the iterator), or the   *)
(*         exception the directory_iterator constructor throws; for a      *)
(*         "bad" entry, the exception its status query throws, which is a  *)
(*         filesystem_error.                                               *)
(***************************************************************************)
Entry(par, k, nm, f) == [parent |-> par, kind |-> k, name |-> nm, fail |-> f]

\* root/{a.txt, b/{c.TXT, d.log}, e/}
TreePlain ==
    << Entry(0, "dir",  <<"r">>, "none"),
       Entry(1, "file", <<"a",".","t","x","t">>, "none"),
       Entry(1, "dir",  <<"b">>, "none"),
       Entry(3, "file", <<"c",".","T","X","T">>, "none"),
       Entry(3, "file", <<"d",".","l","o","g">>, "none"),
       Entry(1, "dir",  <<"e">>, "none") >>

\* root/{u/ (cannot be opened) {x.txt}, k.txt, s/{z -> z (status throws),
\*       m.txt}}
TreeFailing ==
    << Entry(0, "dir",  <<"r">>, "none"),
       Entry(1, "dir",  <<"u">>, "filesystem_error"),
       Entry(2, "file", <<"x",".","t","x","t">>, "none"),
       Entry(1, "file", <<"k",".","t","x","t">>, "none"),
       Entry(1, "dir",  <<"s">>, "none"),
       Entry(5, "bad",  <<"z">>, "filesystem_error"),
       Entry(5, "file", <<"m",".","t","x","t">>, "none") >>

\* root/{l.txt -> file, ld -> dir {n.txt}, p.txt (fifo), q.txt -> nothing,
\*       v/ (permission denied) {y.txt}}
TreeLinks ==
    << Entry(0, "dir",      <<"r">>, "none"),
       Entry(1, "symfile",  <<"l",".","t","x","t">>, "none"),
       Entry(1, "symdir",   <<"l","d">>, "none"),
       Entry(3, "file",     <<"n",".","t","x","t">>, "none"),
       Entry(1, "other",    <<"p",".","t","x","t">>, "none"),
       Entry(1, "dangling", <<"q",".","t","x","t">>, "none"),
       Entry(1, "dir",      <<"v">>, "denied"),
       Entry(7, "file",     <<"y",".","t","x","t">>, "none") >>

Trees == {TreePlain, TreeFailing, TreeLinks}

Patterns == { <<"*",".","t","x","t">>, <<"?",".","L","O","G">> }

Exceptions == {"filesystem_error", "exception", "unknown"}

VARIABLES
    tree,           \* the file system under start_path (an input)
    pattern,        \* argv[2] (an input)
    num_threads,    \* argv[3] (an input)
    stop_flag,      \* std::atomic<bool> stop_flag
    q,              \* DirQueue::q
    mtx,            \* DirQueue::mtx: 0 when free, else the worker holding it
    pending_dirs,   \* std::atomic<int> pending_dirs
    any_file_found, \* std::atomic<bool> any_file_found
    cout,           \* what std::cout has received, one insertion per element
    log_file,       \* the lines of filefinder.log
    mpc,            \* where main is
    started,        \* threads main has created
    joined,         \* threads main has joined
    pc,             \* where each worker is
    dir,            \* the worker's local `dir` (0: none)
    todo,           \* entries the worker's directory_iterator has yet to yield
    entry,          \* the worker's current `entry` (0: none)
    pushed,         \* history: how often each entry was pushed on the queue
    taken,          \* history: how often each entry was returned by pop_or_wait
    completed,      \* history: fetch_sub calls made for each entry as a task
    seen,           \* history: how often each entry was classified
    tested,         \* history: how often matchWildcard was applied to each entry
    mname,          \* matchWildcard called on its own: its argument `name`
    mresult         \* and its result ("none" before the call)

vars == << tree, pattern, num_threads, stop_flag, q, mtx, pending_dirs,
           any_file_found, cout, log_file, mpc, started, joined, pc, dir, todo,
           entry, pushed, taken, completed, seen, tested, mname, mresult >>

\* What no step of the walk changes.
inputs == << tree, pattern, num_threads, stop_flag, mname, mresult >>
hist == << pushed, taken, completed, seen, tested >>

Nodes == DOMAIN tree
children(d) == { e \in Nodes : tree[e].parent = d }

\* directory_entry::is_directory / is_regular_file follow symbolic links;
\* is_symlink does not, so it is true, and does not throw, for a link to
\* itself (kind "bad"), on which the two others throw.
is_directory(e) == tree[e].kind \in {"dir", "symdir"}
is_regular_file(e) == tree[e].kind \in {"file", "symfile"}
is_symlink(e) == tree[e].kind \in {"symfile", "symdir", "dangling", "bad"}
status_throws(e) == tree[e].kind = "bad"

(***************************************************************************)
(* The condition variable DirQueue::cv.  A worker is in its wait set       *)
(* exactly while its pc is "blocked".                                      *)
(***************************************************************************)
\* cv.notify_one(): the pc functions that can result (any one waiter wakes).
notify_one(pcs) ==
    IF \E v \in Workers : pcs[v] = "blocked"
    THEN { [pcs EXCEPT ![v] = "relock"] : v \in { u \in Workers : pcs[u] = "blocked" } }
    ELSE { pcs }

\* cv.notify_all(): every waiter wakes.
notify_all(pcs) ==
    [ v \in Workers |-> IF pcs[v] = "blocked" THEN "relock" ELSE pcs[v] ]

\* log(msg), lines 76-79: the whole body runs under log_mtx and log_file is
\* written nowhere else while workers run, so a call is one step that appends
\* one whole line.
log(msg) == Append(log_file, msg)

Zeroes == [ n \in Nodes |-> 0 ]

\* The state main has built when it reaches line 148.
InitState ==
    /\ q = << >>
    /\ mtx = 0
    /\ pending_dirs = 0
    /\ any_file_found = FALSE
    /\ cout = << >>
    /\ log_file = << <<"started">>, <<"start_path">>, <<"pattern">>, <<"threads">> >>
    /\ mpc = "seed_push"
    /\ started = 0
    /\ joined = 0
    /\ pc = [ w \in Workers |-> "unborn" ]
    /\ dir = [ w \in Workers |-> 0 ]
    /\ todo = [ w \in Workers |-> {} ]
    /\ entry = [ w \in Workers |-> 0 ]
    /\ pushed = Zeroes
    /\ taken = Zeroes
    /\ completed = Zeroes
    /\ seen = Zeroes
    /\ tested = Zeroes

InitCommon ==
    /\ tree \in Trees
    /\ pattern \in Patterns
    /\ num_threads \in 1 .. MaxWorkers
    /\ mname = << >>
    /\ mresult = "none"
    /\ InitState

\* The program: stop_flag is constructed false (line 146) and never stored to.
Init == InitCommon /\ stop_flag = FALSE

(***************************************************************************)
(* main, lines 144-228.                                                    *)
(***************************************************************************)
\* q.push(std::move(p)) of DirQueue::push (line 86).
QPush(seq, p) == Append(seq, p)

\* A pop_or_wait that hands out the front task and forgets to remove it.
QPopKeepsFront(seq) == seq

\* q.pop() of DirQueue::pop_or_wait (line 95).
QPop(seq) == Tail(seq)

\* Line 148: dirq.push(start_path).  No thread exists yet, so the mutex is
\* free and notify_one finds no waiter.
SeedPush ==
    /\ mpc = "seed_push"
    /\ mtx = 0
    /\ q' = QPush(q, 1)
    /\ pc' \in notify_one(pc)
    /\ pushed' = [pushed EXCEPT ![1] = @ + 1]
    /\ mpc' = "seed_inc"
    /\ UNCHANGED << inputs, mtx, pending_dirs, any_file_found, cout, log_file,
                    started, joined, dir, todo, entry, taken, completed, seen,
                    tested >>

\* A main that queues the start path and never counts it.
SeedIncForgotten ==
    /\ mpc = "seed_inc"
    /\ mpc' = "spawn"
    /\ UNCHANGED << inputs, q, mtx, pending_dirs, any_file_found, cout,
                    log_file, started, joined, pc, dir, todo, entry, hist >>

\* Line 149: pending_dirs.fetch_add(1).
SeedInc ==
    /\ mpc = "seed_inc"
    /\ pending_dirs' = pending_dirs + 1
    /\ mpc' = "spawn"
    /\ UNCHANGED << inputs, q, mtx, any_file_found, cout, log_file, started,
                    joined, pc, dir, todo, entry, hist >>

\* Lines 211-213: threads.emplace_back(worker, i), one thread per step.
Spawn ==
    /\ mpc = "spawn"
    /\ started < num_threads
    /\ pc' = [pc EXCEPT ![started + 1] = "start"]
    /\ started' = started + 1
    /\ mpc' = IF started + 1 = num_threads THEN "join" ELSE "spawn"
    /\ UNCHANGED << inputs, q, mtx, pending_dirs, any_file_found, cout,
                    log_file, joined, dir, todo, entry, hist >>

\* A main that goes on without waiting for the thread (detach in place of join).
JoinWithoutWaiting ==
    /\ mpc = "join"
    /\ joined < num_threads
    /\ joined' = joined + 1
    /\ mpc' = IF joined + 1 = num_threads THEN "notice" ELSE "join"
    /\ UNCHANGED << inputs, q, mtx, pending_dirs, any_file_found, cout,
                    log_file, started, pc, dir, todo, entry, hist >>

\* Lines 216-218: t.join() returns once that worker's function has returned.
Join ==
    /\ mpc = "join"
    /\ joined < num_threads
    /\ pc[joined + 1] = "done"
    /\ joined' = joined + 1
    /\ mpc' = IF joined + 1 = num_threads THEN "notice" ELSE "join"
    /\ UNCHANGED << inputs, q, mtx, pending_dirs, any_file_found, cout,
                    log_file, started, pc, dir, todo, entry, hist >>

\* Lines 220-223: the "not found" notice.
Notice ==
    /\ mpc = "notice"
    /\ IF ~any_file_found
       THEN /\ cout' = Append(cout, <<"notice", 0>>)
            /\ log_file' = log(<<"no_match", 0>>)
       ELSE UNCHANGED << cout, log_file >>
    /\ mpc' = "finish"
    /\ UNCHANGED << inputs, q, mtx, pending_dirs, any_file_found, started,
                    joined, pc, dir, todo, entry, hist >>

\* Lines 225-228.
Finish ==
    /\ mpc = "finish"
    /\ log_file' = log(<<"finished", 0>>)
    /\ mpc' = "exit"
    /\ UNCHANGED << inputs, q, mtx, pending_dirs, any_file_found, cout,
                    started, joined, pc, dir, todo, entry, hist >>

(***************************************************************************)
(* The worker lambda, lines 151-206.                                       *)
(***************************************************************************)
\* Lines 152-156: "Thread started".
ThreadStart(w) ==
    /\ pc[w] = "start"
    /\ log_file' = log(<<"thread_started", 0>>)
    /\ pc' = [pc EXCEPT ![w] = "call"]
    /\ UNCHANGED << inputs, q, mtx, pending_dirs, any_file_found, cout, mpc,
                    started, joined, dir, todo, entry, hist >>

\* Line 91, and the re-acquisition of the mutex when cv.wait wakes up.
Lock(w) ==
    /\ pc[w] \in {"call", "relock"}
    /\ mtx = 0
    /\ mtx' = w
    /\ pc' = [pc EXCEPT ![w] = "pred"]
    /\ UNCHANGED << inputs, q, pending_dirs, any_file_found, cout, log_file,
                    mpc, started, joined, dir, todo, entry, hist >>

\* A pop_or_wait that never waits (the predicate dropped from cv.wait).
WaitConditionDropped == TRUE

\* The predicate of line 92.
WaitCondition == q # << >> \/ stop_flag \/ pending_dirs = 0

\* Line 92: cv.wait(lk, pred) evaluates the predicate with the mutex held.
EvalPredicate(w) ==
    /\ pc[w] = "pred"
    /\ pc' = [pc EXCEPT ![w] = IF WaitCondition THEN "ret" ELSE "wait"]
    /\ UNCHANGED << inputs, q, mtx, pending_dirs, any_file_found, cout,
                    log_file, mpc, started, joined, dir, todo, entry, hist >>

\* Line 92: the predicate was false; wait(lk) releases the mutex and puts the
\* thread in the wait set of cv in one atomic step.
CvWait(w) ==
    /\ pc[w] = "wait"
    /\ mtx' = 0
    /\ pc' = [pc EXCEPT ![w] = "blocked"]
    /\ UNCHANGED << inputs, q, pending_dirs, any_file_found, cout, log_file,
                    mpc, started, joined, dir, todo, entry, hist >>

\* std::condition_variable::wait may wake without any notification.
SpuriousWake(w) ==
    /\ pc[w] = "blocked"
    /\ pc' = [pc EXCEPT ![w] = "relock"]
    /\ UNCHANGED << inputs, q, mtx, pending_dirs, any_file_found, cout,
                    log_file, mpc, started, joined, dir, todo, entry, hist >>

\* Lines 93-98: take the front task, or return false; the lock is released.
PopReturn(w) ==
    /\ pc[w] = "ret"
    /\ mtx' = 0
    /\ IF q # << >>
       THEN /\ dir' = [dir EXCEPT ![w] = Head(q)]
            /\ q' = QPop(q)
            /\ taken' = [taken EXCEPT ![Head(q)] = @ + 1]
            /\ pc' = [pc EXCEPT ![w] = "open"]
       ELSE /\ pc' = [pc EXCEPT ![w] = "check"]
            /\ UNCHANGED << dir, q, taken >>
    /\ UNCHANGED << inputs, pending_dirs, any_file_found, cout, log_file, mpc,
                    started, joined, todo, entry, pushed, completed, seen,
                    tested >>

\* Lines 161-164: got is false.
CheckDone(w) ==
    /\ pc[w] = "check"
    /\ pc' = [pc EXCEPT ![w] = IF pending_dirs = 0 THEN "finish" ELSE "call"]
    /\ UNCHANGED << inputs, q, mtx, pending_dirs, any_file_found, cout,
                    log_file, mpc, started, joined, dir, todo, entry, hist >>

\* Line 167: fs::directory_iterator(dir, skip_permission_denied).
OpenDir(w) ==
    /\ pc[w] = "open"
    /\ IF tree[dir[w]].fail \in Exceptions
       THEN /\ pc' = [pc EXCEPT ![w] = "catch"]
            /\ UNCHANGED todo
       ELSE /\ todo' = [todo EXCEPT ![w] =
                          IF tree[dir[w]].fail = "denied" THEN {}
                          ELSE children(dir[w])]
            /\ pc' = [pc EXCEPT ![w] = "iter"]
    /\ UNCHANGED << inputs, q, mtx, pending_dirs, any_file_found, cout,
                    log_file, mpc, started, joined, dir, entry, hist >>

\* A worker that pushes a subdirectory without counting it.
CountSubdirForgotten(p) == p

\* Line 169: pending_dirs.fetch_add(1).
CountSubdir(p) == p + 1

\* A catch clause that goes straight back to the top of the loop.
AfterCatchSkipsDecrement == "call"

\* Where the worker goes after a catch clause (line 196 follows the try).
AfterCatch == "dec"

\* Lines 167-175: the next entry of the directory, in whatever order the
\* file system yields them, and its classification.
Iterate(w) ==
    /\ pc[w] = "iter"
    /\ IF todo[w] = {}
       THEN /\ pc' = [pc EXCEPT ![w] = "dec"]
            /\ UNCHANGED << todo, entry, pending_dirs, any_file_found, seen, tested >>
       ELSE \E e \in todo[w] :
              IF status_throws(e)
              THEN /\ pc' = [pc EXCEPT ![w] = "catch"]
                   /\ entry' = [entry EXCEPT ![w] = e]
                   /\ todo' = [todo EXCEPT ![w] = {}]
                   /\ UNCHANGED << pending_dirs, any_file_found, seen, tested >>
              ELSE /\ todo' = [todo EXCEPT ![w] = @ \ {e}]
                   /\ seen' = [seen EXCEPT ![e] = @ + 1]
                   /\ IF is_directory(e)
                      THEN /\ pending_dirs' = CountSubdir(pending_dirs)
                           /\ entry' = [entry EXCEPT ![w] = e]
                           /\ pc' = [pc EXCEPT ![w] = "push"]
                           /\ UNCHANGED << any_file_found, tested >>
                      ELSE IF is_regular_file(e) \/ is_symlink(e)
                      THEN /\ tested' = [tested EXCEPT ![e] = @ + 1]
                           /\ IF matchWildcard(tree[e].name, pattern)
                              THEN /\ any_file_found' = TRUE
                                   /\ entry' = [entry EXCEPT ![w] = e]
                                   /\ pc' = [pc EXCEPT ![w] = "cout_path"]
                              ELSE UNCHANGED << any_file_found, entry, pc >>
                           /\ UNCHANGED pending_dirs
                      ELSE UNCHANGED << pending_dirs, any_file_found, entry,
                                        pc, tested >>
    /\ UNCHANGED << inputs, q, mtx, cout, log_file, mpc, started, joined, dir,
                    pushed, taken, completed >>

\* Line 170: dirq.push(entry.path()), lines 84-88 under the mutex.
Push(w) ==
    /\ pc[w] = "push"
    /\ mtx = 0
    /\ q' = QPush(q, entry[w])
    /\ pushed' = [pushed EXCEPT ![entry[w]] = @ + 1]
    /\ pc' \in notify_one([pc EXCEPT ![w] = "iter"])
    /\ entry' = [entry EXCEPT ![w] = 0]
    /\ UNCHANGED << inputs, mtx, pending_dirs, any_file_found, cout, log_file,
                    mpc, started, joined, dir, todo, taken, completed, seen,
                    tested >>

\* Line 180, first insertion: std::cout << full_path.
CoutPath(w) ==
    /\ pc[w] = "cout_path"
    /\ cout' = Append(cout, <<"path", entry[w]>>)
    /\ pc' = [pc EXCEPT ![w] = "cout_nl"]
    /\ UNCHANGED << inputs, q, mtx, pending_dirs, any_file_found, log_file,
                    mpc, started, joined, dir, todo, entry, hist >>

\* Line 180, second insertion: << "\n".
CoutNewline(w) ==
    /\ pc[w] = "cout_nl"
    /\ cout' = Append(cout, <<"nl", 0>>)
    /\ pc' = [pc EXCEPT ![w] = "log_match"]
    /\ UNCHANGED << inputs, q, mtx, pending_dirs, any_file_found, log_file,
                    mpc, started, joined, dir, todo, entry, hist >>

\* Line 181: log(output).
LogMatch(w) ==
    /\ pc[w] = "log_match"
    /\ log_file' = log(<<"match", entry[w]>>)
    /\ entry' = [entry EXCEPT ![w] = 0]
    /\ pc' = [pc EXCEPT ![w] = "iter"]
    /\ UNCHANGED << inputs, q, mtx, pending_dirs, any_file_found, cout, mpc,
                    started, joined, dir, todo, hist >>

\* The exception a failed expansion threw: from the entry whose status query
\* failed, else from the directory that could not be opened.
Thrown(w) == IF entry[w] # 0 THEN tree[entry[w]].fail ELSE tree[dir[w]].fail

\* Lines 186-194: the three catch clauses, each logging one line.
Catch(w) ==
    /\ pc[w] = "catch"
    /\ log_file' = log(<< CASE Thrown(w) = "filesystem_error" -> "warn"
                            [] Thrown(w) = "exception" -> "error"
                            [] OTHER -> "error_unknown", dir[w] >>)
    /\ entry' = [entry EXCEPT ![w] = 0]
    /\ todo' = [todo EXCEPT ![w] = {}]
    /\ pc' = [pc EXCEPT ![w] = AfterCatch]
    /\ UNCHANGED << inputs, q, mtx, pending_dirs, any_file_found, cout, mpc,
                    started, joined, dir, hist >>

\* A worker that finishes a task and never makes the fetch_sub.
DecrementForgotten(w) ==
    /\ pc[w] = "dec"
    /\ pc' = [pc EXCEPT ![w] = "call"]
    /\ dir' = [dir EXCEPT ![w] = 0]
    /\ UNCHANGED << inputs, q, mtx, pending_dirs, any_file_found, cout,
                    log_file, mpc, started, joined, todo, entry, hist >>

\* Lines 196-197: remaining = pending_dirs.fetch_sub(1) - 1.
Decrement(w) ==
    /\ pc[w] = "dec"
    /\ pending_dirs' = pending_dirs - 1
    /\ completed' = [completed EXCEPT ![dir[w]] = @ + 1]
    /\ pc' = [pc EXCEPT ![w] = IF pending_dirs - 1 = 0 THEN "notify" ELSE "call"]
    /\ dir' = [dir EXCEPT ![w] = 0]
    /\ UNCHANGED << inputs, q, mtx, any_file_found, cout, log_file, mpc,
                    started, joined, todo, entry, pushed, taken, seen, tested >>

\* Line 198: dirq.notify_all(), made without the mutex (lines 101-103).
NotifyAll(w) ==
    /\ pc[w] = "notify"
    /\ pc' = [notify_all(pc) EXCEPT ![w] = "call"]
    /\ UNCHANGED << inputs, q, mtx, pending_dirs, any_file_found, cout,
                    log_file, mpc, started, joined, dir, todo, entry, hist >>

\* Lines 201-205: "Thread finished"; the worker function returns.
ThreadFinish(w) ==
    /\ pc[w] = "finish"
    /\ log_file' = log(<<"thread_finished", 0>>)
    /\ pc' = [pc EXCEPT ![w] = "done"]
    /\ UNCHANGED << inputs, q, mtx, pending_dirs, any_file_found, cout, mpc,
                    started, joined, dir, todo, entry, hist >>

\* The steps of main.
MainStep ==
    \/ SeedPush
    \/ SeedInc
    \/ Spawn
    \/ Join
    \/ Notice
    \/ Finish

\* The steps of worker w that its own code takes.
WorkerStep(w) ==
    \/ ThreadStart(w)
    \/ Lock(w)
    \/ EvalPredicate(w)
    \/ CvWait(w)
    \/ PopReturn(w)
    \/ CheckDone(w)
    \/ OpenDir(w)
    \/ Iterate(w)
    \/ Push(w)
    \/ CoutPath(w)
    \/ CoutNewline(w)
    \/ LogMatch(w)
    \/ Catch(w)
    \/ Decrement(w)
    \/ NotifyAll(w)
    \/ ThreadFinish(w)

\* Every step the program itself takes.
Program == MainStep \/ \E w \in Workers : WorkerStep(w)

Next == Program \/ \E w \in Workers : SpuriousWake(w)

Spec == Init /\ [][Next]_vars

\* The scheduler runs every thread that can take a step, and a thread that
\* keeps finding the mutex free eventually acquires it.  A spurious wake-up is
\* never owed to a waiting thread.
Fairness ==
    /\ WF_vars(MainStep)
    /\ \A w \in Workers :
         /\ WF_vars(WorkerStep(w))
         /\ SF_vars(Lock(w))
         /\ SF_vars(Push(w))

FairSpec == Spec /\ Fairness

\* The walk with one worker, and with two, under the same fair scheduler.
InitUpToTwo == Init /\ num_threads <= 2

FairSpecUpToTwo == InitUpToTwo /\ [][Next]_vars /\ Fairness

\* DirQueue::pop_or_wait takes stop_flag by reference: the walk with either
\* value of the flag.
InitStop == InitCommon /\ stop_flag \in BOOLEAN

SpecStop == InitStop /\ [][Next]_vars

(***************************************************************************)
(* matchWildcard on its own: the name is any string of at most MaxLen       *)
(* characters over the letters a, A, b and the two wildcard characters, the *)
(* pattern any such string over a, B and the two wildcard characters, so    *)
(* that letters meet in equal case, in either opposite case, and unequal.   *)
(***************************************************************************)
OrdinaryChars == {"a", "A", "b"}
WildChars == {"*", "?"}
PatternChars == {"a", "B"} \cup WildChars

\* The strings over alphabet S of length at most n.
StringsUpTo(S, n) == UNION { [1 .. k -> S] : k \in 0 .. n }

InitMatch ==
    /\ tree = TreePlain
    /\ num_threads = 1
    /\ stop_flag = FALSE
    /\ pattern \in StringsUpTo(PatternChars, MaxLen)
    /\ mname \in StringsUpTo(OrdinaryChars \cup WildChars, MaxLen)
    /\ mresult = "none"
    /\ InitState

\* One call matchWildcard(name, pattern), lines 23-52.
CallMatch ==
    /\ mresult = "none"
    /\ mresult' = IF matchWildcard(mname, pattern) THEN "true" ELSE "false"
    /\ UNCHANGED << tree, pattern, num_threads, stop_flag, mname, q, mtx,
                    pending_dirs, any_file_found, cout, log_file, mpc, started,
                    joined, pc, dir, todo, entry, hist >>

SpecMatch == InitMatch /\ [][CallMatch]_vars

(***************************************************************************)
(* Properties.                                                             *)
(***************************************************************************)
\* Every worker main created has left its loop and returned.
AllWorkersDone == \A w \in 1 .. num_threads : pc[w] = "done"

\* Worker w holds a task it took from the queue and has not yet made the
\* fetch_sub for.
Expanding(w) ==
    pc[w] \in {"open", "iter", "push", "cout_path", "cout_nl", "log_match",
               "catch", "dec"}

\* Worker w has left its loop.
Exited(w) == pc[w] \in {"finish", "done"}

\* How often entry d occurs in the queue.
InQueue(d) == Cardinality({ i \in 1 .. Len(q) : q[i] = d })

\* The paths written to standard output.
Emitted == { cout[i][2] : i \in { j \in 1 .. Len(cout) : cout[j][1] = "path" } }

\* The accounting the code does keep: pending_dirs counts the queued tasks, the
\* tasks being expanded and the subdirectories counted but not yet pushed;
\* the seed is counted one step after it is queued.
PendingAccounting ==
    pending_dirs = Len(q) + Cardinality({ w \in Workers : Expanding(w) })
                   + Cardinality({ w \in Workers : pc[w] = "push" })
                   - (IF mpc = "seed_inc" THEN 1 ELSE 0)

\* C1: under fair scheduling every worker eventually leaves its loop, the
\* joins in main return, and pending_dirs is 0 from then on.
C1_Termination == <>(joined = num_threads /\ pending_dirs = 0)

\* C2: whenever some worker has left its loop, the queue is empty, no worker
\* is expanding a directory and pending_dirs is 0.
C2_NoPrematureExit ==
    (\E w \in Workers : Exited(w)) =>
        /\ q = << >>
        /\ \A v \in Workers : ~Expanding(v)
        /\ pending_dirs = 0

\* C2 witness: a worker has returned after a walk in which a subdirectory was
\* expanded, while another worker is still inside pop_or_wait.
C2_Witness ==
    /\ \E w \in Workers : pc[w] = "done"
    /\ \E v \in Workers : pc[v] \in {"pred", "ret", "relock"}
    /\ \E d \in Nodes : d # 1 /\ completed[d] = 1

\* C3: pending_dirs equals the number of queued tasks plus the number of tasks
\* being expanded, in every reachable state.
C3_PendingInvariant ==
    pending_dirs = Len(q) + Cardinality({ w \in Workers : Expanding(w) })

\* C4: no task gets a second fetch_sub, every task a worker has finished with
\* has got its fetch_sub, and when every worker has returned each pushed task,
\* the seed included, has been decremented exactly once.
C4_PairedAccounting ==
    /\ \A d \in Nodes :
         /\ completed[d] <= 1
         /\ taken[d] = completed[d] + Cardinality({ w \in Workers : dir[w] = d })
    /\ AllWorkersDone => \A d \in Nodes : completed[d] = pushed[d]

\* C4 witness: the walk has ended after a directory whose expansion threw was
\* decremented, and several tasks were pushed.
C4_Witness ==
    /\ AllWorkersDone
    /\ \E d \in Nodes : tree[d].fail \in Exceptions /\ completed[d] = 1
    /\ Cardinality({ d \in Nodes : pushed[d] = 1 }) >= 3

\* An entry the walk can get to: every directory above it can be opened.
RECURSIVE Reachable(_)
Reachable(n) ==
    \/ n = 1
    \/ /\ tree[n].parent # 0
       /\ is_directory(tree[n].parent)
       /\ tree[tree[n].parent].fail = "none"
       /\ Reachable(tree[n].parent)

\* A leaf to match: a regular file or a symbolic link to something that is not
\* a directory.
IsFile(n) == tree[n].kind \in {"file", "symfile", "dangling"}

\* C5: when the walk has ended, every reachable directory was expanded exactly
\* once, every reachable file was tested exactly once, and the paths written are
\* exactly the reachable files whose name matches the pattern.
C5_Completeness ==
    AllWorkersDone =>
        /\ \A d \in Nodes : Reachable(d) /\ is_directory(d) => taken[d] = 1
        /\ \A f \in Nodes : Reachable(f) /\ IsFile(f) => tested[f] = 1
        /\ Emitted = { f \in Nodes : /\ Reachable(f)
                                     /\ IsFile(f)
                                     /\ matchWildcard(tree[f].name, pattern) }

\* C6: a task is returned by pop_or_wait at most once, two workers never hold
\* the same task, a pushed task is either still queued or was returned to a
\* worker, and nothing is left queued when every worker has returned.
C6_ExclusiveOwnership ==
    /\ \A d \in Nodes :
         /\ taken[d] <= 1
         /\ pushed[d] = taken[d] + InQueue(d)
    /\ \A w, v \in Workers : w # v /\ dir[w] # 0 => dir[w] # dir[v]
    /\ AllWorkersDone => q = << >>

\* C6 witness: two workers hold different tasks at the same time after an
\* earlier task was taken and finished.
C6_Witness ==
    /\ \E w, v \in Workers : w # v /\ dir[w] # 0 /\ dir[v] # 0
    /\ \E d \in Nodes : taken[d] = 1 /\ completed[d] = 1

\* C7: once a worker has caught the failure of a directory's enumeration, the
\* walk still ends: every worker returns and main's joins complete, with one
\* fetch_sub made for each directory that could not be opened and every
\* matching file of the directories that were enumerated to the end written.
C7_FailureResilience ==
    (\E w \in Workers : pc[w] = "catch") ~>
        /\ joined = num_threads
        /\ \A d \in Nodes :
             taken[d] = 1 /\ tree[d].fail \in Exceptions => completed[d] = 1
        /\ \A d \in Nodes :
             /\ taken[d] = 1
             /\ tree[d].fail = "none"
             /\ \A e \in children(d) : ~status_throws(e)
             => \A f \in children(d) :
                  IsFile(f) /\ matchWildcard(tree[f].name, pattern) => f \in Emitted

\* C8: when a worker has finished a directory that could be opened, every
\* entry of it whose status can be queried has been classified, also when the
\* status query of another entry of that directory threw.
C8_PerEntryFailure ==
    \A d \in Nodes :
        completed[d] = 1 /\ tree[d].fail = "none" =>
            \A e \in children(d) : ~status_throws(e) => seen[e] = 1

\* C9: with stop_flag set, no call of pop_or_wait returns a task.
C9_StopReturnsEmpty == stop_flag => \A d \in Nodes : taken[d] = 0

\* C10: on standard output the path of a match is followed immediately by its
\* own line terminator.  (Each line of the log is written whole by log(), under
\* log_mtx.)
C10_OutputExclusion ==
    \A i \in 1 .. Len(cout) :
        cout[i][1] = "path" /\ i < Len(cout) => cout[i + 1][1] = "nl"

\* Two characters are the same letter up to case.
SameUpToCase(a, b) ==
    \/ a = b
    \/ \E i \in 1 .. Len(UpperChars) : {a, b} = {UpperChars[i], LowerChars[i]}

\* The anchored glob relation: '*' stands for any run of characters, '?' for
\* exactly one, any other character for itself up to letter case.
RECURSIVE GlobRef(_, _)
GlobRef(name, pat) ==
    IF pat = << >> THEN name = << >>
    ELSE IF Head(pat) = "*"
    THEN GlobRef(name, Tail(pat)) \/ (name # << >> /\ GlobRef(Tail(name), pat))
    ELSE /\ name # << >>
         /\ (Head(pat) = "?" \/ SameUpToCase(Head(pat), Head(name)))
         /\ GlobRef(Tail(name), Tail(pat))

\* The examples: "report.TXT" with "*.txt", "data_1.csv" with "data_??.csv",
\* "" with "?", "FooBar" with "foo*".
MatchExamples ==
    /\ matchWildcard(<<"r","e","p","o","r","t",".","T","X","T">>,
                     <<"*",".","t","x","t">>)
    /\ ~matchWildcard(<<"d","a","t","a","_","1",".","c","s","v">>,
                      <<"d","a","t","a","_","?","?",".","c","s","v">>)
    /\ ~matchWildcard(<< >>, <<"?">>)
    /\ matchWildcard(<<"F","o","o","B","a","r">>, <<"f","o","o","*">>)

\* C11: for a name of ordinary characters and any pattern, matchWildcard
\* returns true exactly when the name is in the glob relation with the
\* pattern; the listed examples come out as stated.
C11_MatcherCorrect ==
    /\ (mresult # "none" /\ \A i \in 1 .. Len(mname) : mname[i] \in OrdinaryChars)
       => ((mresult = "true") <=> GlobRef(mname, pattern))
    /\ mresult # "none" => MatchExamples

\* C11 witness: a match that needs the star to absorb two characters and the
\* last letter to match across case.
C11_Witness ==
    mresult = "true" /\ mname = <<"a", "A", "b">> /\ pattern = <<"*", "B">>

\* C12: matchWildcard(name, "*") is true for every name, also one that holds
\* '*' or '?'.
C12_StarMatchesAll ==
    (mresult # "none" /\ pattern = <<"*">>) => mresult = "true"

\* The "not found" notice is on standard output.
NoticeWritten == \E i \in 1 .. Len(cout) : cout[i][1] = "notice"

\* C13: the notice is on standard output only when main has joined every
\* worker, every worker has returned and no match was written; with a match
\* written, or found by a worker that has yet to write it, the notice is not
\* there, and main past line 223 without any match has written it.
C13_NoticeOnlyWithoutMatch ==
    /\ NoticeWritten =>
         /\ joined = num_threads
         /\ AllWorkersDone
         /\ Emitted = {}
         /\ ~any_file_found
    /\ (Emitted # {} \/ any_file_found) => ~NoticeWritten
    /\ (mpc \in {"finish", "exit"} /\ Emitted = {}) => NoticeWritten

\* C13 witness: two workers walked a tree with files, none matched, and main
\* wrote the notice.
C13_Witness ==
    /\ NoticeWritten
    /\ num_threads = 2
    /\ \E f \in Nodes : tested[f] = 1

\* C14: pending_dirs is 1 from the creation of the first worker until a
\* worker has taken the seed, and it is never negative.
C14_PendingStartsAtOne ==
    /\ pending_dirs >= 0
    /\ (started >= 1 /\ taken[1] = 0) => pending_dirs = 1
    /\ (mpc = "spawn" /\ started = 0) => pending_dirs = 1

\* C14 witness: with two workers to run, the first is evaluating the wait
\* predicate and the seed is still queued.
C14_Witness ==
    /\ pc[1] = "pred"
    /\ taken[1] = 0
    /\ pending_dirs = 1
    /\ num_threads = 2

\* C15: pending_dirs does not change while a worker stands between its
\* evaluation of the wait predicate (found false) and its blocking on cv.
C15_SingleExclusionDomain ==
    [][(\E w \in Workers : pc[w] = "wait") => pending_dirs' = pending_dirs]_vars

\* C16: every task in the queue is already counted in pending_dirs, together
\* with the tasks being expanded.
C16_IncrementBeforePublish ==
    pending_dirs >= Len(q) + Cardinality({ w \in Workers : Expanding(w) })

\* C17: a worker to which pop_or_wait has returned false leaves its loop; it
\* does not go back to call pop_or_wait.
C17_EmptyMeansExit ==
    [][\A w \in Workers : pc[w] = "check" => pc'[w] \in {"check", "finish"}]_vars

\* C18: a symbolic link is never counted or pushed as a task and never
\* expanded; whenever it is classified it is name-matched.
C18_SymlinkIsLeaf ==
    \A e \in Nodes :
        is_symlink(e) => pushed[e] = 0 /\ taken[e] = 0 /\ tested[e] = seen[e]

\* C19: with one worker, the worker never finds the wait predicate false (it
\* never blocks on cv nor needs a notification) and, under fair scheduling, main
\* runs to its end with pending_dirs 0.
C19_SingleWorkerTerminates ==
    (num_threads = 1) =>
        /\ [](\A w \in Workers : pc[w] \notin {"wait", "blocked", "relock"})
        /\ <>(mpc = "exit" /\ pending_dirs = 0)

\* C19 witness: the single worker is back in pop_or_wait after finishing the
\* last of several tasks and finds pending_dirs 0.
C19_Witness ==
    /\ num_threads = 1
    /\ pc[1] = "ret"
    /\ q = << >>
    /\ pending_dirs = 0
    /\ Cardinality({ d \in Nodes : completed[d] = 1 }) >= 3

\* C20: a worker takes the `continue` of line 163 only with stop_flag set, so
\* never in the program, which leaves it false; and with stop_flag set a call
\* of pop_or_wait never blocks.
C20_ContinueOnlyWhenStopped ==
    [][\A w \in Workers :
          /\ (pc[w] = "check" /\ pc'[w] = "call") => stop_flag
          /\ (stop_flag /\ pc[w] = "pred") => pc'[w] \in {"pred", "ret"}]_vars

\* C20 witness: stop_flag is set, the queue is empty, another worker is still
\* expanding, and a worker that got false is about to call pop_or_wait again.
C20_Witness ==
    /\ stop_flag
    /\ q = << >>
    /\ pending_dirs # 0
    /\ \E w \in Workers : pc[w] = "check"

====
